---- MODULE Spec2Model ----
(***************************************************************************)
(* A model of the byte-level BPE tokenizer: the segmenter (pretokenize.py),*)
(* the trainer (train.py) and the merge codec (tokenizer.py).              *)
(*                                                                         *)
(* Text is a sequence of Unicode code points; a token string is a sequence *)
(* of code points below 256 (one latin-1 character per byte), as the       *)
(* vocabulary of train.py stores it.                                       *)
(***************************************************************************)
EXTENDS Integers, Sequences, FiniteSets, TLC

\* ------------------------------------------------------------------ bounds
MaxTextLen == 3      \* longest corpus / text handed to train and encode
MaxMerges == 2       \* largest number of merges a training run may request
MaxIdsLen == 2       \* longest id sequence handed to decode directly
MaxSegLen == 4       \* longest text handed to pretokenize on its own
MaxSeqLen == 4       \* longest id sequence handed to _apply_merges on its own
MaxRules == 2        \* longest merge table handed to _apply_merges on its own
MaxLines == 3        \* most records in a merges file handed to from_pretrained
MaxCalls == 2        \* most encode calls one concurrent caller makes
MaxExtra == 2        \* corpus sizes run up to MaxExtra above 0 and above the parallel threshold
MaxPool == 3         \* worker counts 1..MaxPool handed to count_pairs_parallel

\* ------------------------------------------------------- generic helpers
Min(S) == CHOOSE x \in S : \A y \in S : x <= y

Max(S) == CHOOSE x \in S : \A y \in S : x >= y

RECURSIVE Flatten(_)
Flatten(ss) == IF ss = <<>> THEN <<>> ELSE Head(ss) \o Flatten(Tail(ss))

RECURSIVE SeqsUpTo(_, _)
SeqsUpTo(S, n) ==
  IF n = 0 THEN {<<>>}
  ELSE LET shorter == SeqsUpTo(S, n - 1)
       IN shorter \cup {Append(q, x) : q \in {r \in shorter : Len(r) = n - 1}, x \in S}

\* ------------------------------------------------------------ characters
\* Unicode general categories of the code points the model uses: all of
\* latin-1, plus U+20AC (a symbol) and U+D55C (a letter) beyond it.
IsLetter(c) ==
  \/ c \in 65..90 \/ c \in 97..122 \/ c \in {170, 181, 186}
  \/ c \in 192..214 \/ c \in 216..246 \/ c \in 248..255 \/ c = 54620

IsNumber(c) == c \in 48..57 \/ c \in {178, 179, 185, 188, 189, 190}

IsSpace(c) == c \in 9..13 \/ c \in 28..32 \/ c \in {133, 160}

IsNewline(c) == c \in {10, 13}

IsOther(c) == ~IsSpace(c) /\ ~IsLetter(c) /\ ~IsNumber(c)

Lower(c) == IF c \in 65..90 THEN c + 32 ELSE c

\* str.encode("utf-8") of one code point
Utf8Char(c) ==
  IF c < 128 THEN <<c>>
  ELSE IF c < 2048 THEN <<192 + (c \div 64), 128 + (c % 64)>>
  ELSE IF c < 65536
    THEN <<224 + (c \div 4096), 128 + ((c \div 64) % 64), 128 + (c % 64)>>
  ELSE <<240 + (c \div 262144), 128 + ((c \div 4096) % 64),
         128 + ((c \div 64) % 64), 128 + (c % 64)>>

RECURSIVE Utf8Encode(_)
Utf8Encode(s) == IF s = <<>> THEN <<>> ELSE Utf8Char(Head(s)) \o Utf8Encode(Tail(s))

\* ------------------------------------------------------------- segmenter
\* Last index of the maximal run of characters satisfying P that starts at
\* i (i - 1 when s[i] does not satisfy P).
RunEnd(s, i, P(_)) ==
  LET bad == {j \in i..Len(s) : ~P(s[j])}
  IN IF bad = {} THEN Len(s) ELSE Min(bad) - 1

\* Each alternative of PATTERN, tried at position i: the index of the last
\* character of its match, or 0 when it does not match there.
\* '(?i:[sdmt]|ll|ve|re)
AltContraction(s, i) ==
  IF s[i] # 39 THEN 0
  ELSE IF i + 1 <= Len(s) /\ Lower(s[i + 1]) \in {115, 100, 109, 116} THEN i + 1
  ELSE IF i + 2 <= Len(s)
          /\ <<Lower(s[i + 1]), Lower(s[i + 2])>> \in {<<108, 108>>, <<118, 101>>, <<114, 101>>}
    THEN i + 2
  ELSE 0

\*  ?\p{L}+
AltLetters(s, i) ==
  IF s[i] = 32 /\ i + 1 <= Len(s) /\ IsLetter(s[i + 1]) THEN RunEnd(s, i + 1, IsLetter)
  ELSE IF IsLetter(s[i]) THEN RunEnd(s, i, IsLetter)
  ELSE 0

\*  ?\p{N}
AltNumber(s, i) ==
  IF s[i] = 32 /\ i + 1 <= Len(s) /\ IsNumber(s[i + 1]) THEN i + 1
  ELSE IF IsNumber(s[i]) THEN i
  ELSE 0

\*  ?[^\s\p{L}\p{N}]+[\r\n]*
AltOther(s, i) ==
  IF s[i] = 32 /\ i + 1 <= Len(s) /\ IsOther(s[i + 1])
    THEN RunEnd(s, RunEnd(s, i + 1, IsOther) + 1, IsNewline)
  ELSE IF IsOther(s[i]) THEN RunEnd(s, RunEnd(s, i, IsOther) + 1, IsNewline)
  ELSE 0

\* \s*[\r\n]
AltSpaceNewline(s, i) ==
  LET w == RunEnd(s, i, IsSpace)
      nls == {j \in i..w : IsNewline(s[j])}
  IN IF nls = {} THEN 0 ELSE Max(nls)

\* \s+(?!\S)
AltTrailingSpace(s, i) ==
  LET w == RunEnd(s, i, IsSpace)
  IN IF w < i THEN 0
     ELSE IF w = Len(s) THEN w
     ELSE IF w - 1 >= i THEN w - 1
     ELSE 0

\* \s+
AltSpace(s, i) ==
  LET w == RunEnd(s, i, IsSpace) IN IF w < i THEN 0 ELSE w

\* A variant of MatchAt that lacks the last alternative, \s+.
MatchAtNoSpace(s, i) ==
  IF AltContraction(s, i) # 0 THEN AltContraction(s, i)
  ELSE IF AltLetters(s, i) # 0 THEN AltLetters(s, i)
  ELSE IF AltNumber(s, i) # 0 THEN AltNumber(s, i)
  ELSE IF AltOther(s, i) # 0 THEN AltOther(s, i)
  ELSE IF AltSpaceNewline(s, i) # 0 THEN AltSpaceNewline(s, i)
  ELSE AltTrailingSpace(s, i)

\* The first alternative of PATTERN that matches at i decides the match.
MatchAt(s, i) ==
  IF AltContraction(s, i) # 0 THEN AltContraction(s, i)
  ELSE IF AltLetters(s, i) # 0 THEN AltLetters(s, i)
  ELSE IF AltNumber(s, i) # 0 THEN AltNumber(s, i)
  ELSE IF AltOther(s, i) # 0 THEN AltOther(s, i)
  ELSE IF AltSpaceNewline(s, i) # 0 THEN AltSpaceNewline(s, i)
  ELSE IF AltTrailingSpace(s, i) # 0 THEN AltTrailingSpace(s, i)
  ELSE AltSpace(s, i)

\* re.findall scans from pos: the first position at or after pos where the
\* pattern matches (0 when there is none); characters before it are skipped.
NextMatchStart(s, pos) ==
  LET starts == {j \in pos..Len(s) : MatchAt(s, j) # 0}
  IN IF starts = {} THEN 0 ELSE Min(starts)

RECURSIVE FindallFrom(_, _)
FindallFrom(s, pos) ==
  LET st == NextMatchStart(s, pos)
  IN IF st = 0 THEN <<>>
     ELSE <<SubSeq(s, st, MatchAt(s, st))>> \o FindallFrom(s, MatchAt(s, st) + 1)

pretokenize(text) == FindallFrom(text, 1)

\* --------------------------------------------------- Python dict / Counter
\* A dict is its keys in insertion order and the value of every key.
EmptyDict == [keys |-> <<>>, map |-> <<>>]

DictHas(d, k) == k \in DOMAIN d.map

DictGet(d, k) == d.map[k]

DictLen(d) == Len(d.keys)

\* d[k] = v: a new key is appended, an existing key keeps its place.
DictSet(d, k, v) ==
  IF DictHas(d, k) THEN [d EXCEPT !.map[k] = v]
  ELSE [keys |-> Append(d.keys, k), map |-> d.map @@ (k :> v)]

DictValues(d) == {d.map[k] : k \in DOMAIN d.map}

\* d.items()
DictItems(d) == [n \in 1..Len(d.keys) |-> <<d.keys[n], d.map[d.keys[n]]>>]

\* The folds over a whole vocabulary split their range in two, so that the
\* depth of the evaluation stays logarithmic in its size; the items are
\* still visited in insertion order (the test of DictLen(left) only makes the
\* left half be evaluated before the right half starts).
\* {v: k for k, v in d.items()}
RECURSIVE InvertRange(_, _, _, _)
InvertRange(acc, d, lo, hi) ==
  IF lo > hi THEN acc
  ELSE IF lo = hi THEN DictSet(acc, d.map[d.keys[lo]], d.keys[lo])
  ELSE LET mid == (lo + hi) \div 2
           left == InvertRange(acc, d, lo, mid)
       IN IF DictLen(left) >= 0 THEN InvertRange(left, d, mid + 1, hi) ELSE left

DictInvert(d) == InvertRange(EmptyDict, d, 1, DictLen(d))

\* {k: v for k, v in items}
RECURSIVE FromItemsRange(_, _, _, _)
FromItemsRange(acc, items, lo, hi) ==
  IF lo > hi THEN acc
  ELSE IF lo = hi THEN DictSet(acc, items[lo][1], items[lo][2])
  ELSE LET mid == (lo + hi) \div 2
           left == FromItemsRange(acc, items, lo, mid)
       IN IF DictLen(left) >= 0 THEN FromItemsRange(left, items, mid + 1, hi) ELSE left

DictFromItems(items) == FromItemsRange(EmptyDict, items, 1, Len(items))

\* counter[k] += n
CounterAdd(cnt, k, n) == DictSet(cnt, k, (IF DictHas(cnt, k) THEN DictGet(cnt, k) ELSE 0) + n)

\* ------------------------------------------------------------ train.py
PAD == <<60, 80, 65, 68, 62>>

UNK == <<60, 85, 78, 75, 62>>

BOS == <<60, 66, 79, 83, 62>>

EOS == <<60, 69, 79, 83, 62>>

SPECIAL_TOKENS == DictFromItems(<< <<PAD, 0>>, <<UNK, 1>>, <<BOS, 2>>, <<EOS, 3>> >>)

\* bytes([byte_val]).decode("latin-1"): the one-character string whose code
\* point is the byte value.
Latin1Char(byte_val) == <<byte_val>>

\* for byte_val in range(256): vocab[byte_token] = len(vocab)
RECURSIVE BaseVocabLoop(_, _, _)
BaseVocabLoop(vocab, lo, hi) ==
  IF lo > hi THEN vocab
  ELSE IF lo = hi THEN DictSet(vocab, Latin1Char(lo), DictLen(vocab))
  ELSE LET mid == (lo + hi) \div 2
           left == BaseVocabLoop(vocab, lo, mid)
       IN IF DictLen(left) >= 0 THEN BaseVocabLoop(left, mid + 1, hi) ELSE left

\* A variant of build_base_vocab whose loop is range(255): byte 255 gets no
\* symbol.
build_base_vocab_short == BaseVocabLoop(SPECIAL_TOKENS, 0, 254)

build_base_vocab == BaseVocabLoop(SPECIAL_TOKENS, 0, 255)

\* byte_to_vocab_id of train / byte_to_id of _text_to_ids: every
\* one-character token whose code point is below 256.
ByteToId(vocab) ==
  LET single == {k \in DOMAIN vocab.map : Len(k) = 1 /\ k[1] < 256}
  IN [b \in {k[1] : k \in single} |-> vocab.map[<<b>>]]

\* The pairs of one chunk, in the order count_pairs meets them.
ChunkPairs(chunk) == [p \in 1..(IF Len(chunk) = 0 THEN 0 ELSE Len(chunk) - 1) |-> <<chunk[p], chunk[p + 1]>>]

RECURSIVE CountInto(_, _)
CountInto(cnt, pairs) ==
  IF pairs = <<>> THEN cnt ELSE CountInto(CounterAdd(cnt, Head(pairs), 1), Tail(pairs))

\* for chunk in corpus_chunks, over the chunks lo..hi in order (the range is
\* split in two as in the folds over a vocabulary).
RECURSIVE CountRange(_, _, _, _)
CountRange(cnt, chunks, lo, hi) ==
  IF lo > hi THEN cnt
  ELSE IF lo = hi THEN CountInto(cnt, ChunkPairs(chunks[lo]))
  ELSE LET mid == (lo + hi) \div 2
           left == CountRange(cnt, chunks, lo, mid)
       IN IF DictLen(left) >= 0 THEN CountRange(left, chunks, mid + 1, hi) ELSE left

count_pairs(corpus_chunks) == CountRange(EmptyDict, corpus_chunks, 1, Len(corpus_chunks))

ParallelThreshold == 1000

NumWorkers == 4

\* corpus_chunks[i:i + chunk_size] for i in range(0, len, chunk_size)
RECURSIVE Splits(_, _)
Splits(chunks, chunk_size) ==
  IF chunks = <<>> THEN <<>>
  ELSE IF Len(chunks) <= chunk_size THEN <<chunks>>
  ELSE <<SubSeq(chunks, 1, chunk_size)>> \o Splits(SubSeq(chunks, chunk_size + 1, Len(chunks)), chunk_size)

\* final_counts.update(result) for each worker's result
RECURSIVE CounterUpdate(_, _)
CounterUpdate(cnt, items) ==
  IF items = <<>> THEN cnt
  ELSE CounterUpdate(CounterAdd(cnt, Head(items)[1], Head(items)[2]), Tail(items))

RECURSIVE ReduceCounts(_, _)
ReduceCounts(cnt, splits) ==
  IF splits = <<>> THEN cnt
  ELSE ReduceCounts(CounterUpdate(cnt, DictItems(count_pairs(Head(splits)))), Tail(splits))

count_pairs_parallel(corpus_chunks, num_workers) ==
  IF Len(corpus_chunks) < ParallelThreshold THEN count_pairs(corpus_chunks)
  ELSE ReduceCounts(EmptyDict, Splits(corpus_chunks, Len(corpus_chunks) \div num_workers))

\* A variant of MaxByCount that keeps the last key, in insertion order, that
\* has the largest count (>= for > in a hand-written maximum).
MaxByCountLast(pair_counts) ==
  LET top == Max(DictValues(pair_counts))
  IN pair_counts.keys[Max({n \in 1..DictLen(pair_counts) :
                             DictGet(pair_counts, pair_counts.keys[n]) = top})]

\* A variant of MaxByCount without the key function: max(pair_counts), the
\* largest pair in the order of tuples.
MaxByCountNoKey(pair_counts) ==
  CHOOSE p \in DOMAIN pair_counts.map :
    \A q \in DOMAIN pair_counts.map : q[1] < p[1] \/ (q[1] = p[1] /\ q[2] <= p[2])

\* max(pair_counts, key=lambda p: pair_counts[p]): the first key, in
\* insertion order, that has the largest count.
MaxByCount(pair_counts) ==
  LET top == Max(DictValues(pair_counts))
  IN pair_counts.keys[Min({n \in 1..DictLen(pair_counts) :
                             DictGet(pair_counts, pair_counts.keys[n]) = top})]

\* A variant of MergeChunk that stops after the first occurrence it replaces.
RECURSIVE MergeChunkOnce(_, _, _, _)
MergeChunkOnce(chunk, pair, new_id, i) ==
  IF i > Len(chunk) THEN <<>>
  ELSE IF i < Len(chunk) /\ chunk[i] = pair[1] /\ chunk[i + 1] = pair[2]
    THEN <<new_id>> \o SubSeq(chunk, i + 2, Len(chunk))
  ELSE <<chunk[i]>> \o MergeChunkOnce(chunk, pair, new_id, i + 1)

\* A variant of MergeChunk that resumes one position after a consumed pair
\* (i += 1 for i += 2).
RECURSIVE MergeChunkStepOne(_, _, _, _)
MergeChunkStepOne(chunk, pair, new_id, i) ==
  IF i > Len(chunk) THEN <<>>
  ELSE IF i < Len(chunk) /\ chunk[i] = pair[1] /\ chunk[i + 1] = pair[2]
    THEN <<new_id>> \o MergeChunkStepOne(chunk, pair, new_id, i + 1)
  ELSE <<chunk[i]>> \o MergeChunkStepOne(chunk, pair, new_id, i + 1)

\* A variant of MergeChunk that scans the chunk from its right end.
RECURSIVE MergeFromRight(_, _, _, _)
MergeFromRight(chunk, pair, new_id, j) ==
  IF j < 1 THEN <<>>
  ELSE IF j > 1 /\ chunk[j - 1] = pair[1] /\ chunk[j] = pair[2]
    THEN Append(MergeFromRight(chunk, pair, new_id, j - 2), new_id)
  ELSE Append(MergeFromRight(chunk, pair, new_id, j - 1), chunk[j])

MergeChunkFromRight(chunk, pair, new_id, i) == MergeFromRight(chunk, pair, new_id, Len(chunk))

RECURSIVE MergeChunk(_, _, _, _)
MergeChunk(chunk, pair, new_id, i) ==
  IF i > Len(chunk) THEN <<>>
  ELSE IF i < Len(chunk) /\ chunk[i] = pair[1] /\ chunk[i + 1] = pair[2]
    THEN <<new_id>> \o MergeChunk(chunk, pair, new_id, i + 2)
  ELSE <<chunk[i]>> \o MergeChunk(chunk, pair, new_id, i + 1)

merge_pair(corpus_chunks, pair, new_id) ==
  [c \in 1..Len(corpus_chunks) |-> MergeChunk(corpus_chunks[c], pair, new_id, 1)]

\* --------------------------------------------------------- saved artifacts
\* f"{n}" for a non-negative integer: its decimal digits as characters.
RECURSIVE FormatInt(_)
FormatInt(n) == IF n < 10 THEN <<48 + n>> ELSE Append(FormatInt(n \div 10), 48 + (n % 10))

\* f"{a} {b} {new_id}\n"
FormatMergeLine(m) ==
  FormatInt(m[1][1]) \o <<32>> \o FormatInt(m[1][2]) \o <<32>> \o FormatInt(m[2]) \o <<10>>

\* line.strip().split(): the maximal runs of non-whitespace characters.
RECURSIVE SplitFields(_, _)
SplitFields(line, i) ==
  IF i > Len(line) THEN <<>>
  ELSE IF IsSpace(line[i]) THEN SplitFields(line, i + 1)
  ELSE LET e == RunEnd(line, i, LAMBDA c : ~IsSpace(c))
       IN <<SubSeq(line, i, e)>> \o SplitFields(line, e + 1)

\* int(field) succeeds on an optional sign followed by decimal digits.
IsIntLiteral(f) ==
  LET digits == IF f # <<>> /\ f[1] \in {43, 45} THEN Tail(f) ELSE f
  IN digits # <<>> /\ \A n \in 1..Len(digits) : digits[n] \in 48..57

RECURSIVE DigitsValue(_)
DigitsValue(ds) ==
  IF ds = <<>> THEN 0 ELSE 10 * DigitsValue(SubSeq(ds, 1, Len(ds) - 1)) + (ds[Len(ds)] - 48)

ParseInt(f) ==
  IF f[1] = 45 THEN 0 - DigitsValue(Tail(f))
  ELSE IF f[1] = 43 THEN DigitsValue(Tail(f))
  ELSE DigitsValue(f)

\* One pass of the loop of from_pretrained over the records of merges.txt:
\* the merges list read so far and whether int() has raised.
LoadLine(acc, line) ==
  LET parts == SplitFields(line, 1)
  IN IF acc.exc # "none" THEN acc
     ELSE IF Len(parts) # 3 THEN acc
     ELSE IF \E n \in 1..3 : ~IsIntLiteral(parts[n]) THEN [acc EXCEPT !.exc = "ValueError"]
     ELSE [acc EXCEPT !.merges =
             Append(@, <<<<ParseInt(parts[1]), ParseInt(parts[2])>>, ParseInt(parts[3])>>)]

RECURSIVE LoadLines(_, _)
LoadLines(acc, lines) ==
  IF lines = <<>> THEN acc ELSE LoadLines(LoadLine(acc, Head(lines)), Tail(lines))

LoadMerges(lines) == LoadLines([exc |-> "none", merges |-> <<>>], lines)

\* ---------------------------------------------------------- tokenizer.py
\* Tokenizer.__init__
NewTokenizer(vocab, merge_list, special_tokens) ==
  [vocab |-> vocab,
   id_to_token |-> DictInvert(vocab),
   merges |-> merge_list,
   special_tokens |-> special_tokens,
   merge_map |-> DictFromItems(merge_list)]

\* A variant of TextToIds that returns the raw bytes, not their vocab ids.
TextToIdsRaw(tok, text) == [exc |-> "none", val |-> Utf8Encode(text)]

\* Tokenizer._text_to_ids; exc is "KeyError" when a byte has no vocab id.
TextToIds(tok, text) ==
  LET byte_to_id == ByteToId(tok.vocab)
      raw_bytes == Utf8Encode(text)
  IN IF \E n \in 1..Len(raw_bytes) : raw_bytes[n] \notin DOMAIN byte_to_id
       THEN [exc |-> "KeyError", val |-> <<>>]
       ELSE [exc |-> "none", val |-> [n \in 1..Len(raw_bytes) |-> byte_to_id[raw_bytes[n]]]]

\* next(i for i, (p, _) in enumerate(self.merges) if p == pair)
MergePosition(merge_list, pair) ==
  Min({n \in 1..Len(merge_list) : merge_list[n][1] = pair}) - 1

\* A variant of ScanPairs whose comparison is <=, so that the last
\* occurrence of the best pair wins.
RECURSIVE ScanPairsLast(_, _, _, _)
ScanPairsLast(tok, ids, pos, best) ==
  IF pos > Len(ids) - 1 THEN best
  ELSE LET pair == <<ids[pos], ids[pos + 1]>>
       IN IF DictHas(tok.merge_map, pair)
               /\ MergePosition(tok.merges, pair) <= best.position
            THEN ScanPairsLast(tok, ids, pos + 1,
                               [found |-> TRUE, pair |-> pair, idx |-> pos,
                                position |-> MergePosition(tok.merges, pair)])
            ELSE ScanPairsLast(tok, ids, pos + 1, best)

\* The for loop of _apply_merges over the adjacent pairs, left to right.
RECURSIVE ScanPairs(_, _, _, _)
ScanPairs(tok, ids, pos, best) ==
  IF pos > Len(ids) - 1 THEN best
  ELSE LET pair == <<ids[pos], ids[pos + 1]>>
       IN IF DictHas(tok.merge_map, pair)
               /\ MergePosition(tok.merges, pair) < best.position
            THEN ScanPairs(tok, ids, pos + 1,
                           [found |-> TRUE, pair |-> pair, idx |-> pos,
                            position |-> MergePosition(tok.merges, pair)])
            ELSE ScanPairs(tok, ids, pos + 1, best)

BestPair(tok, ids) ==
  ScanPairs(tok, ids, 1,
            [found |-> FALSE, pair |-> <<0, 0>>, idx |-> 0, position |-> Len(tok.merges)])

\* A variant of ApplyMergesStep that keeps the second id of the merged pair
\* (ids[best_idx+1:] for ids[best_idx+2:]).
ApplyMergesStepKeep(tok, ids) ==
  IF Len(ids) < 2 \/ ~BestPair(tok, ids).found THEN [done |-> TRUE, ids |-> ids]
  ELSE LET best == BestPair(tok, ids)
       IN [done |-> FALSE,
           ids |-> SubSeq(ids, 1, best.idx - 1) \o <<DictGet(tok.merge_map, best.pair)>>
                     \o SubSeq(ids, best.idx + 1, Len(ids))]

\* One pass of the while loop of _apply_merges.
ApplyMergesStep(tok, ids) ==
  IF Len(ids) < 2 \/ ~BestPair(tok, ids).found THEN [done |-> TRUE, ids |-> ids]
  ELSE LET best == BestPair(tok, ids)
       IN [done |-> FALSE,
           ids |-> SubSeq(ids, 1, best.idx - 1) \o <<DictGet(tok.merge_map, best.pair)>>
                     \o SubSeq(ids, best.idx + 2, Len(ids))]

RECURSIVE ApplyMerges(_, _)
ApplyMerges(tok, ids) ==
  LET r == ApplyMergesStep(tok, ids)
  IN IF r.done THEN r.ids ELSE ApplyMerges(tok, r.ids)

\* A variant of EncodeChunks that merges over the ids of all the chunks
\* joined, not chunk by chunk.
RECURSIVE ChunkIdsJoined(_, _)
ChunkIdsJoined(tok, chunks) ==
  IF chunks = <<>> THEN <<>>
  ELSE TextToIds(tok, Head(chunks)).val \o ChunkIdsJoined(tok, Tail(chunks))

EncodeChunksJoined(tok, chunks) ==
  [exc |-> "none", val |-> ApplyMerges(tok, ChunkIdsJoined(tok, chunks))]

\* The loop of encode over the chunks.
RECURSIVE EncodeChunks(_, _)
EncodeChunks(tok, chunks) ==
  IF chunks = <<>> THEN [exc |-> "none", val |-> <<>>]
  ELSE LET chunk_ids == TextToIds(tok, Head(chunks))
           rest == EncodeChunks(tok, Tail(chunks))
       IN IF chunk_ids.exc # "none" THEN chunk_ids
          ELSE IF rest.exc # "none" THEN rest
          ELSE [exc |-> "none", val |-> ApplyMerges(tok, chunk_ids.val) \o rest.val]

\* A variant of Encode that appends no EOS.
EncodeNoEos(tok, text, add_special_tokens) ==
  LET all_ids == EncodeChunks(tok, pretokenize(text))
  IN IF all_ids.exc # "none" \/ ~add_special_tokens THEN all_ids
     ELSE IF ~DictHas(tok.special_tokens, BOS) \/ ~DictHas(tok.special_tokens, EOS)
       THEN [exc |-> "KeyError", val |-> <<>>]
     ELSE [exc |-> "none", val |-> <<DictGet(tok.special_tokens, BOS)>> \o all_ids.val]

\* Tokenizer.encode
Encode(tok, text, add_special_tokens) ==
  LET all_ids == EncodeChunks(tok, pretokenize(text))
  IN IF all_ids.exc # "none" \/ ~add_special_tokens THEN all_ids
     ELSE IF ~DictHas(tok.special_tokens, BOS) \/ ~DictHas(tok.special_tokens, EOS)
       THEN [exc |-> "KeyError", val |-> <<>>]
     ELSE [exc |-> "none",
           val |-> <<DictGet(tok.special_tokens, BOS)>> \o all_ids.val
                     \o <<DictGet(tok.special_tokens, EOS)>>]

\* bytes.decode("utf-8", errors="replace"): an ill-formed sequence becomes
\* one U+FFFD for its maximal well-formed prefix (at least one byte).
ReplacementChar == 65533

Utf8Need(b) ==
  IF b \in 194..223 THEN 1 ELSE IF b \in 224..239 THEN 2 ELSE IF b \in 240..244 THEN 3 ELSE 0

Utf8Second(b) ==
  IF b = 224 THEN 160..191
  ELSE IF b = 237 THEN 128..159
  ELSE IF b = 240 THEN 144..191
  ELSE IF b = 244 THEN 128..143
  ELSE 128..191

\* How many of the continuation bytes the lead byte at i needs are there.
Utf8Cont(bs, i) ==
  LET ok(j) == /\ i + j <= Len(bs)
               /\ bs[i + j] \in (IF j = 1 THEN Utf8Second(bs[i]) ELSE 128..191)
      bad == {j \in 1..Utf8Need(bs[i]) : ~ok(j)}
  IN IF bad = {} THEN Utf8Need(bs[i]) ELSE Min(bad) - 1

Utf8Value(bs, i) ==
  IF Utf8Need(bs[i]) = 1 THEN (bs[i] - 192) * 64 + (bs[i + 1] - 128)
  ELSE IF Utf8Need(bs[i]) = 2
    THEN (bs[i] - 224) * 4096 + (bs[i + 1] - 128) * 64 + (bs[i + 2] - 128)
  ELSE (bs[i] - 240) * 262144 + (bs[i + 1] - 128) * 4096
         + (bs[i + 2] - 128) * 64 + (bs[i + 3] - 128)

RECURSIVE Utf8DecodeFrom(_, _)
Utf8DecodeFrom(bs, i) ==
  IF i > Len(bs) THEN <<>>
  ELSE IF bs[i] < 128 THEN <<bs[i]>> \o Utf8DecodeFrom(bs, i + 1)
  ELSE IF Utf8Need(bs[i]) = 0 THEN <<ReplacementChar>> \o Utf8DecodeFrom(bs, i + 1)
  ELSE IF Utf8Cont(bs, i) = Utf8Need(bs[i])
    THEN <<Utf8Value(bs, i)>> \o Utf8DecodeFrom(bs, i + Utf8Need(bs[i]) + 1)
  ELSE <<ReplacementChar>> \o Utf8DecodeFrom(bs, i + Utf8Cont(bs, i) + 1)

Utf8Decode(bs) == Utf8DecodeFrom(bs, 1)

\* A variant of SkipSpecial that also drops the ids the vocabulary lacks.
SkipSpecialAndUnknown(tok, ids) ==
  SelectSeq(ids, LAMBDA id : id \notin DictValues(tok.special_tokens)
                              /\ DictHas(tok.id_to_token, id))

\* The filter of decode: [id for id in ids if id not in special_ids]
SkipSpecial(tok, ids) ==
  SelectSeq(ids, LAMBDA id : id \notin DictValues(tok.special_tokens))

\* A variant of TokenOf without the <UNK> fallback: self.id_to_token[id].
TokenOfStrict(tok, id) ==
  IF DictHas(tok.id_to_token, id) THEN DictGet(tok.id_to_token, id) ELSE <<-1>>

\* The token string decode appends for one id; <<-1>> stands for the
\* KeyError of a missing <UNK> entry.
TokenOf(tok, id) ==
  IF DictHas(tok.id_to_token, id) THEN DictGet(tok.id_to_token, id)
  ELSE IF ~DictHas(tok.special_tokens, UNK) THEN <<-1>>
  ELSE IF ~DictHas(tok.id_to_token, DictGet(tok.special_tokens, UNK)) THEN <<-1>>
  ELSE DictGet(tok.id_to_token, DictGet(tok.special_tokens, UNK))

\* Tokenizer.decode
Decode(tok, ids, skip_special_tokens) ==
  LET kept == IF skip_special_tokens THEN SkipSpecial(tok, ids) ELSE ids
      tokens == [n \in 1..Len(kept) |-> TokenOf(tok, kept[n])]
      text == Flatten(tokens)
  IN IF \E n \in 1..Len(tokens) : tokens[n] = <<-1>> THEN [exc |-> "KeyError", val |-> <<>>]
     ELSE IF \E n \in 1..Len(text) : text[n] > 255 THEN [exc |-> "none", val |-> text]
     ELSE [exc |-> "none", val |-> Utf8Decode(text)]

\* ------------------------------------------------------------------ inputs
BaseVocabSize == 260

Hello == <<104, 101, 108, 108, 111>>

\* a, b, space and e-acute (two bytes in UTF-8)
Alphabet == {97, 98, 32, 233}

\* "da": the bytes 100 and 97, whose ids are 104 and 101
Da == <<100, 97>>

\* "bb ab ab": the chunk " ab" occurs twice
Repeated == <<98, 98, 32, 97, 98, 32, 97, 98>>

Texts == SeqsUpTo(Alphabet, MaxTextLen) \cup {Hello, Da, Repeated}

VocabSizes == (BaseVocabSize - 1)..(BaseVocabSize + MaxMerges)

\* <UNK>, <BOS>, the bytes 'a', 0xC3 and 0xA9, a merged id and an absent id
SampleIds == {1, 2, 101, 199, 173, 260, 999}

\* The id sequences of the "hello" scenario
ScenarioIds == {<<260, 108, 108, 111>>, <<260, 112, 112, 115>>}

IdSeqs == SeqsUpTo(SampleIds, MaxIdsLen) \cup ScenarioIds

\* -------------------------------------------------------------------- state
VARIABLES
  pc,             \* where the run is: in train, in from_pretrained, or serving
  text,           \* train: the corpus text read by read_corpus
  vocab_size,     \* train: the requested vocabulary size
  string_chunks,  \* train: pretokenize(text)
  vocab,          \* train: token string -> id
  corpus_chunks,  \* train: one id sequence per chunk
  num_merges,     \* train: vocab_size - len(base vocab)
  merges,         \* train: ((id_a, id_b), new_id) in learned order
  i,              \* train: the merge loop counter
  files,          \* save_dir: vocab.json, merges.txt, config.json
  ld,             \* from_pretrained: vocab, merges read so far, next line
  tokenizer,      \* the Tokenizer object built by from_pretrained
  client,         \* the caller's last encode / decode call and its result
  seg,            \* pretokenize on its own: text, scan position, chunks
  am,             \* _apply_merges on its own: the ids being rewritten
  workers,        \* concurrent callers of one tokenizer: each one's call in progress
  pool            \* count_pairs_parallel on its own: splits, results, reduction

vars == <<pc, text, vocab_size, string_chunks, vocab, corpus_chunks, num_merges,
          merges, i, files, ld, tokenizer, client, seg, am, workers,
          pool>>

trainVars == <<text, vocab_size, string_chunks, vocab, corpus_chunks, num_merges, merges, i>>

NoConfig ==
  [vocab_size |-> 0, num_merges |-> 0, special_tokens |-> EmptyDict, base_vocab_size |-> 0]

NoFiles == [exists |-> FALSE, vocab |-> <<>>, merges |-> <<>>, config |-> NoConfig]

NoLoad == [vocab |-> EmptyDict, merges |-> <<>>, line |-> 0]

NoTokenizer ==
  [vocab |-> EmptyDict, id_to_token |-> EmptyDict, merges |-> <<>>,
   special_tokens |-> EmptyDict, merge_map |-> EmptyDict]

NoClient ==
  [stage |-> "idle", text |-> <<>>, add |-> FALSE, ids |-> <<>>, skip |-> FALSE,
   exc |-> "none", decoded |-> <<>>]

NoSeg == [text |-> <<>>, pos |-> 0, chunks |-> <<>>]

NoAm == [input |-> <<>>, ids |-> <<>>, done |-> FALSE, steps |-> 0]

NoWorkers == <<>>

NoPool ==
  [stage |-> "none", num_workers |-> 0, splits |-> <<>>, results |-> <<>>,
   final_counts |-> EmptyDict, next |-> 0]

\* train(corpus_path, vocab_size) has been called on a corpus whose text is
\* one of Texts.
Init ==
  /\ pc = "train"
  /\ text \in Texts
  /\ vocab_size \in VocabSizes
  /\ string_chunks = <<>>
  /\ vocab = EmptyDict
  /\ corpus_chunks = <<>>
  /\ num_merges = 0
  /\ merges = <<>>
  /\ i = 0
  /\ files = NoFiles
  /\ ld = NoLoad
  /\ tokenizer = NoTokenizer
  /\ client = NoClient
  /\ seg = NoSeg
  /\ am = NoAm
  /\ workers = NoWorkers
  /\ pool = NoPool

\* ------------------------------------------------------------------ train
\* A variant of chunk_to_vocab_ids that returns the raw byte values, not
\* their vocab ids.
chunk_to_vocab_ids_raw(byte_to_vocab_id, chunk) == Utf8Encode(chunk)

\* chunk_to_vocab_ids of train
chunk_to_vocab_ids(byte_to_vocab_id, chunk) ==
  LET raw_bytes == Utf8Encode(chunk)
  IN [n \in 1..Len(raw_bytes) |-> byte_to_vocab_id[raw_bytes[n]]]

\* A variant of TrainBegin that tests num_merges < 0.
TrainBeginStrict ==
  /\ pc = "train"
  /\ string_chunks' = pretokenize(text)
  /\ vocab' = build_base_vocab
  /\ corpus_chunks' = [c \in 1..Len(string_chunks') |->
                         chunk_to_vocab_ids(ByteToId(vocab'), string_chunks'[c])]
  /\ num_merges' = vocab_size - DictLen(vocab')
  /\ pc' = IF num_merges' < 0 THEN "aborted" ELSE "loop"
  /\ UNCHANGED <<text, vocab_size, merges, i, files, ld, tokenizer, client, seg, am, workers, pool>>

\* train up to the merge loop: pretokenize, base vocabulary, corpus as vocab
\* ids, and the check of the number of merges.
TrainBegin ==
  /\ pc = "train"
  /\ string_chunks' = pretokenize(text)
  /\ vocab' = build_base_vocab
  /\ corpus_chunks' = [c \in 1..Len(string_chunks') |->
                         chunk_to_vocab_ids(ByteToId(vocab'), string_chunks'[c])]
  /\ num_merges' = vocab_size - DictLen(vocab')
  /\ pc' = IF num_merges' <= 0 THEN "aborted" ELSE "loop"
  /\ UNCHANGED <<text, vocab_size, merges, i, files, ld, tokenizer, client, seg, am, workers, pool>>

\* A variant of TrainIteration whose new token is the first parent's string
\* alone.
TrainIterationFirstParent ==
  /\ pc = "loop"
  /\ i < num_merges
  /\ DictLen(count_pairs_parallel(corpus_chunks, NumWorkers)) > 0
  /\ LET pair_counts == count_pairs_parallel(corpus_chunks, NumWorkers)
         best_pair == MaxByCount(pair_counts)
         new_id == DictLen(vocab)
         id_to_token == DictInvert(vocab)
     IN IF ~DictHas(id_to_token, best_pair[1]) \/ ~DictHas(id_to_token, best_pair[2])
          THEN /\ pc' = "crashed"
               /\ UNCHANGED <<vocab, merges, corpus_chunks, i>>
          ELSE /\ vocab' = DictSet(vocab, DictGet(id_to_token, best_pair[1]), new_id)
               /\ merges' = Append(merges, <<best_pair, new_id>>)
               /\ corpus_chunks' = merge_pair(corpus_chunks, best_pair, new_id)
               /\ i' = i + 1
               /\ pc' = pc
  /\ UNCHANGED <<text, vocab_size, string_chunks, num_merges, files, ld, tokenizer,
                 client, seg, am, workers, pool>>

\* One pass of the merge loop that finds a pair to merge.
TrainIteration ==
  /\ pc = "loop"
  /\ i < num_merges
  /\ DictLen(count_pairs_parallel(corpus_chunks, NumWorkers)) > 0
  /\ LET pair_counts == count_pairs_parallel(corpus_chunks, NumWorkers)
         best_pair == MaxByCount(pair_counts)
         new_id == DictLen(vocab)
         id_to_token == DictInvert(vocab)
     IN IF ~DictHas(id_to_token, best_pair[1]) \/ ~DictHas(id_to_token, best_pair[2])
          THEN /\ pc' = "crashed"
               /\ UNCHANGED <<vocab, merges, corpus_chunks, i>>
          ELSE /\ vocab' = DictSet(vocab,
                                   DictGet(id_to_token, best_pair[1])
                                     \o DictGet(id_to_token, best_pair[2]),
                                   new_id)
               /\ merges' = Append(merges, <<best_pair, new_id>>)
               /\ corpus_chunks' = merge_pair(corpus_chunks, best_pair, new_id)
               /\ i' = i + 1
               /\ pc' = pc
  /\ UNCHANGED <<text, vocab_size, string_chunks, num_merges, files, ld, tokenizer,
                 client, seg, am, workers, pool>>

\* The pass that finds no pair at all: break.
TrainNoPairs ==
  /\ pc = "loop"
  /\ i < num_merges
  /\ DictLen(count_pairs_parallel(corpus_chunks, NumWorkers)) = 0
  /\ pc' = "save"
  /\ UNCHANGED <<trainVars, files, ld, tokenizer, client, seg, am, workers, pool>>

\* range(num_merges) is exhausted.
TrainLoopEnd ==
  /\ pc = "loop"
  /\ i = num_merges
  /\ pc' = "save"
  /\ UNCHANGED <<trainVars, files, ld, tokenizer, client, seg, am, workers, pool>>

\* save_tokenizer(vocab, merges, config, save_dir)
save_tokenizer(vocab_, merges_, config) ==
  [exists |-> TRUE,
   vocab |-> DictItems(vocab_),
   merges |-> [n \in 1..Len(merges_) |-> FormatMergeLine(merges_[n])],
   config |-> config]

TrainSave ==
  /\ pc = "save"
  /\ files' = save_tokenizer(vocab, merges,
                             [vocab_size |-> DictLen(vocab),
                              num_merges |-> Len(merges),
                              special_tokens |-> SPECIAL_TOKENS,
                              base_vocab_size |-> 260])
  /\ pc' = "saved"
  /\ UNCHANGED <<trainVars, ld, tokenizer, client, seg, am, workers, pool>>

\* train returns: its locals are gone, the files stay.
TrainReturn ==
  /\ pc = "saved"
  /\ pc' = "returned"
  /\ text' = <<>>
  /\ vocab_size' = 0
  /\ string_chunks' = <<>>
  /\ vocab' = EmptyDict
  /\ corpus_chunks' = <<>>
  /\ num_merges' = 0
  /\ merges' = <<>>
  /\ i' = 0
  /\ UNCHANGED <<files, ld, tokenizer, client, seg, am, workers, pool>>

\* -------------------------------------------------------- from_pretrained
\* json.load of vocab.json: the items of the object, inserted in order.
OpenPretrained ==
  /\ pc = "returned"
  /\ files.exists
  /\ ld' = [vocab |-> DictFromItems(files.vocab), merges |-> <<>>, line |-> 1]
  /\ pc' = "loading"
  /\ UNCHANGED <<trainVars, files, tokenizer, client, seg, am, workers, pool>>

\* One record of merges.txt.
ReadMergeLine ==
  /\ pc = "loading"
  /\ ld.line <= Len(files.merges)
  /\ LET r == LoadLine([exc |-> "none", merges |-> ld.merges], files.merges[ld.line])
     IN /\ ld' = [ld EXCEPT !.merges = r.merges, !.line = @ + 1]
        /\ pc' = IF r.exc # "none" THEN "load_failed" ELSE pc
  /\ UNCHANGED <<trainVars, files, tokenizer, client, seg, am, workers, pool>>

\* config.json is read and cls(vocab, merges, special_tokens) is returned.
FinishLoad ==
  /\ pc = "loading"
  /\ ld.line > Len(files.merges)
  /\ tokenizer' = NewTokenizer(ld.vocab, ld.merges, files.config.special_tokens)
  /\ pc' = "loaded"
  /\ UNCHANGED <<trainVars, files, ld, client, seg, am, workers, pool>>

\* ------------------------------------------------------------ the caller
\* ids = tokenizer.encode(text, add_special_tokens)
ClientEncode ==
  /\ pc = "loaded"
  /\ client.stage = "idle"
  /\ \E t \in Texts, add \in BOOLEAN :
       LET r == Encode(tokenizer, t, add)
       IN client' = [stage |-> "encoded", text |-> t, add |-> add, ids |-> r.val,
                     skip |-> FALSE, exc |-> r.exc, decoded |-> <<>>]
  /\ UNCHANGED <<pc, trainVars, files, ld, tokenizer, seg, am, workers, pool>>

\* decoded = tokenizer.decode(ids, skip_special_tokens) on the ids encode
\* has just returned
ClientDecodeEncoded ==
  /\ pc = "loaded"
  /\ client.stage = "encoded"
  /\ client.exc = "none"
  /\ \E skip \in BOOLEAN :
       LET r == Decode(tokenizer, client.ids, skip)
       IN client' = [client EXCEPT !.stage = "roundtrip", !.skip = skip,
                                   !.exc = r.exc, !.decoded = r.val]
  /\ UNCHANGED <<pc, trainVars, files, ld, tokenizer, seg, am, workers, pool>>

\* tokenizer.decode on ids that come from elsewhere
ClientDecode ==
  /\ pc = "loaded"
  /\ client.stage = "idle"
  /\ \E ids \in IdSeqs, skip \in BOOLEAN :
       LET r == Decode(tokenizer, ids, skip)
       IN client' = [stage |-> "decoded", text |-> <<>>, add |-> FALSE, ids |-> ids,
                     skip |-> skip, exc |-> r.exc, decoded |-> r.val]
  /\ UNCHANGED <<pc, trainVars, files, ld, tokenizer, seg, am, workers, pool>>

Next ==
  \/ TrainBegin
  \/ TrainIteration
  \/ TrainNoPairs
  \/ TrainLoopEnd
  \/ TrainSave
  \/ TrainReturn
  \/ OpenPretrained
  \/ ReadMergeLine
  \/ FinishLoad
  \/ ClientEncode
  \/ ClientDecodeEncoded
  \/ ClientDecode

Spec == Init /\ [][Next]_vars

\* ------------------------------------------------ pretokenize on its own
\* a, s, 1, space, tab, line feed, apostrophe and !
SegAlphabet == {97, 115, 49, 32, 9, 10, 39, 33}

SegTexts == SeqsUpTo(SegAlphabet, MaxSegLen)

InitSeg ==
  /\ pc = "pretokenize"
  /\ seg \in {[text |-> t, pos |-> 1, chunks |-> <<>>] : t \in SegTexts}
  /\ text = <<>>
  /\ vocab_size = 0
  /\ string_chunks = <<>>
  /\ vocab = EmptyDict
  /\ corpus_chunks = <<>>
  /\ num_merges = 0
  /\ merges = <<>>
  /\ i = 0
  /\ files = NoFiles
  /\ ld = NoLoad
  /\ tokenizer = NoTokenizer
  /\ client = NoClient
  /\ am = NoAm
  /\ workers = NoWorkers
  /\ pool = NoPool

\* findall appends the next match and goes on after its end.
FindallStep ==
  /\ pc = "pretokenize"
  /\ NextMatchStart(seg.text, seg.pos) # 0
  /\ LET st == NextMatchStart(seg.text, seg.pos)
     IN seg' = [seg EXCEPT !.chunks = Append(@, SubSeq(seg.text, st, MatchAt(seg.text, st))),
                           !.pos = MatchAt(seg.text, st) + 1]
  /\ UNCHANGED <<pc, trainVars, files, ld, tokenizer, client, am, workers, pool>>

\* No match is left: findall returns the list.
FindallEnd ==
  /\ pc = "pretokenize"
  /\ NextMatchStart(seg.text, seg.pos) = 0
  /\ pc' = "segmented"
  /\ UNCHANGED <<trainVars, files, ld, tokenizer, client, seg, am, workers, pool>>

NextSeg == FindallStep \/ FindallEnd

SpecSeg == InitSeg /\ [][NextSeg]_vars

\* --------------------------------------------- _apply_merges on its own
\* The ids of the bytes 'a' and 'b'
SeqIds == {101, 102}

\* The merge tables of at most n rules that a training run can record: the
\* k-th rule (from 0) has new_id 260 + k, joins two ids that exist by then,
\* and no pair has two rules.
RECURSIVE RuleTables(_)
RuleTables(n) ==
  IF n = 0 THEN {<<>>}
  ELSE LET shorter == RuleTables(n - 1)
           symbols == SeqIds \cup (BaseVocabSize..(BaseVocabSize + n - 2))
           extended == {Append(t, <<<<a, b>>, BaseVocabSize + n - 1>>) :
                          t \in {u \in shorter : Len(u) = n - 1},
                          a \in symbols, b \in symbols}
       IN shorter \cup {t \in extended : \A k \in 1..(n - 1) : t[k][1] # t[n][1]}

InitMerge ==
  /\ pc = "apply_merges"
  /\ tokenizer \in {NewTokenizer(build_base_vocab, t, SPECIAL_TOKENS) : t \in RuleTables(MaxRules)}
  /\ am \in {[input |-> ids, ids |-> ids, done |-> FALSE, steps |-> 0] :
               ids \in SeqsUpTo(SeqIds, MaxSeqLen)}
  /\ text = <<>>
  /\ vocab_size = 0
  /\ string_chunks = <<>>
  /\ vocab = EmptyDict
  /\ corpus_chunks = <<>>
  /\ num_merges = 0
  /\ merges = <<>>
  /\ i = 0
  /\ files = NoFiles
  /\ ld = NoLoad
  /\ client = NoClient
  /\ seg = NoSeg
  /\ workers = NoWorkers
  /\ pool = NoPool

\* One pass of the while loop: a merge, or the discovery that none applies.
ApplyMergesPass ==
  /\ pc = "apply_merges"
  /\ ~am.done
  /\ LET r == ApplyMergesStep(tokenizer, am.ids)
     IN am' = [am EXCEPT !.ids = r.ids, !.done = r.done,
                         !.steps = IF r.done THEN @ ELSE @ + 1]
  /\ UNCHANGED <<pc, trainVars, files, ld, tokenizer, client, seg, workers, pool>>

\* return ids
ApplyMergesReturn ==
  /\ pc = "apply_merges"
  /\ am.done
  /\ pc' = "merged"
  /\ UNCHANGED <<trainVars, files, ld, tokenizer, client, seg, am, workers, pool>>

NextMerge == ApplyMergesPass \/ ApplyMergesReturn

SpecMerge == InitMerge /\ [][NextMerge]_vars

\* ------------------------------------------ from_pretrained on any files
\* "108 105 260", "104 101 260", "a b c", "1 2" and an empty record
SampleLines ==
  {FormatMergeLine(<<<<108, 105>>, 260>>),
   FormatMergeLine(<<<<104, 101>>, 260>>),
   <<97, 32, 98, 32, 99, 10>>,
   <<49, 32, 50, 10>>,
   <<10>>}

\* The base vocabulary, alone or with the symbol "he" as id 260
SampleVocabs ==
  {build_base_vocab, DictSet(build_base_vocab, <<104, 101>>, BaseVocabSize)}

InitLoad ==
  /\ pc = "returned"
  /\ files \in {[exists |-> TRUE,
                 vocab |-> DictItems(v),
                 merges |-> ls,
                 config |-> [vocab_size |-> DictLen(v), num_merges |-> Len(ls),
                             special_tokens |-> SPECIAL_TOKENS, base_vocab_size |-> 260]] :
                  v \in SampleVocabs, ls \in SeqsUpTo(SampleLines, MaxLines)}
  /\ text = <<>>
  /\ vocab_size = 0
  /\ string_chunks = <<>>
  /\ vocab = EmptyDict
  /\ corpus_chunks = <<>>
  /\ num_merges = 0
  /\ merges = <<>>
  /\ i = 0
  /\ ld = NoLoad
  /\ tokenizer = NoTokenizer
  /\ client = NoClient
  /\ seg = NoSeg
  /\ am = NoAm
  /\ workers = NoWorkers
  /\ pool = NoPool

NextLoad == OpenPretrained \/ ReadMergeLine \/ FinishLoad

SpecLoad == InitLoad /\ [][NextLoad]_vars

\* ------------------------------------- concurrent callers of one tokenizer
Workers == {1, 2}

\* "aab" and "ab aa"
WorkerTexts == {<<97, 97, 98>>, <<97, 98, 32, 97, 97>>}

\* The tokenizers train saves for the corpus "aab" with one and two merges
AabVocab == DictSet(build_base_vocab, <<97, 97>>, BaseVocabSize)

AabMerges == << <<<<101, 101>>, 260>>, <<<<260, 102>>, 261>> >>

WorkerTokenizers ==
  {NewTokenizer(AabVocab, SubSeq(AabMerges, 1, 1), SPECIAL_TOKENS),
   NewTokenizer(DictSet(AabVocab, <<97, 97, 98>>, BaseVocabSize + 1), AabMerges,
                SPECIAL_TOKENS)}

\* A caller that has made no call yet: it will encode t with add.
NewWorker(t, add) ==
  [stage |-> "idle", text |-> t, add |-> add, chunks |-> <<>>, k |-> 0,
   chunk_ids |-> <<>>, ids |-> <<>>, all_ids |-> <<>>, results |-> <<>>,
   dec |-> 0, skip |-> FALSE, decoded |-> <<>>]

InitWorkers ==
  /\ pc = "serving"
  /\ tokenizer \in WorkerTokenizers
  /\ workers \in [Workers -> {NewWorker(t, add) : t \in WorkerTexts, add \in BOOLEAN}]
  /\ text = <<>>
  /\ vocab_size = 0
  /\ string_chunks = <<>>
  /\ vocab = EmptyDict
  /\ corpus_chunks = <<>>
  /\ num_merges = 0
  /\ merges = <<>>
  /\ i = 0
  /\ files = NoFiles
  /\ ld = NoLoad
  /\ client = NoClient
  /\ seg = NoSeg
  /\ am = NoAm
  /\ pool = NoPool

\* encode is entered: chunks = pretokenize(text); all_ids = []
WorkerEncode(w) ==
  /\ pc = "serving"
  /\ workers[w].stage = "idle"
  /\ Len(workers[w].results) < MaxCalls
  /\ workers' = [workers EXCEPT ![w].stage = "chunk",
                                ![w].chunks = pretokenize(workers[w].text),
                                ![w].k = 1,
                                ![w].all_ids = <<>>]
  /\ UNCHANGED <<pc, trainVars, files, ld, tokenizer, client, seg, am, pool>>

\* chunk_ids = self._text_to_ids(chunk), handed to _apply_merges
WorkerTextToIds(w) ==
  /\ pc = "serving"
  /\ workers[w].stage = "chunk"
  /\ workers[w].k <= Len(workers[w].chunks)
  /\ LET r == TextToIds(tokenizer, workers[w].chunks[workers[w].k])
     IN workers' = [workers EXCEPT ![w].stage = IF r.exc = "none" THEN "merge" ELSE "raised",
                                   ![w].chunk_ids = r.val,
                                   ![w].ids = r.val]
  /\ UNCHANGED <<pc, trainVars, files, ld, tokenizer, client, seg, am, pool>>

\* One pass of the while loop of _apply_merges on its local ids; when it
\* breaks, all_ids.extend(merged_ids) and the next chunk.
WorkerApplyMergesPass(w) ==
  /\ pc = "serving"
  /\ workers[w].stage = "merge"
  /\ LET r == ApplyMergesStep(tokenizer, workers[w].ids)
     IN workers' = IF r.done
                     THEN [workers EXCEPT ![w].stage = "chunk",
                                          ![w].all_ids = @ \o r.ids,
                                          ![w].k = @ + 1]
                     ELSE [workers EXCEPT ![w].ids = r.ids]
  /\ UNCHANGED <<pc, trainVars, files, ld, tokenizer, client, seg, am, pool>>

\* The chunks are exhausted: the special tokens are added if requested and
\* the list is returned to the caller, who keeps it.
WorkerEncodeReturn(w) ==
  /\ pc = "serving"
  /\ workers[w].stage = "chunk"
  /\ workers[w].k > Len(workers[w].chunks)
  /\ LET all_ids == IF workers[w].add
                      THEN <<DictGet(tokenizer.special_tokens, BOS)>> \o workers[w].all_ids
                             \o <<DictGet(tokenizer.special_tokens, EOS)>>
                      ELSE workers[w].all_ids
     IN workers' = [workers EXCEPT ![w].stage = "idle", ![w].results = Append(@, all_ids)]
  /\ UNCHANGED <<pc, trainVars, files, ld, tokenizer, client, seg, am, pool>>

\* A variant of WorkerDecode that filters the caller's list in place
\* (ids[:] = ... for ids = ...).
WorkerDecodeInPlace(w) ==
  /\ pc = "serving"
  /\ workers[w].stage = "idle"
  /\ workers[w].dec < Len(workers[w].results)
  /\ \E skip \in BOOLEAN :
       LET last == Len(workers[w].results)
           r == Decode(tokenizer, workers[w].results[last], skip)
       IN workers' = [workers EXCEPT ![w].dec = last, ![w].skip = skip,
                                     ![w].decoded = r.val,
                                     ![w].results[last] =
                                       IF skip THEN SkipSpecial(tokenizer, @) ELSE @]
  /\ UNCHANGED <<pc, trainVars, files, ld, tokenizer, client, seg, am, pool>>

\* decode(ids, skip) on the list the caller's last encode returned; the
\* filter rebinds the local name ids, the caller's list stays as it was.
WorkerDecode(w) ==
  /\ pc = "serving"
  /\ workers[w].stage = "idle"
  /\ workers[w].dec < Len(workers[w].results)
  /\ \E skip \in BOOLEAN :
       LET last == Len(workers[w].results)
           r == Decode(tokenizer, workers[w].results[last], skip)
       IN workers' = [workers EXCEPT ![w].dec = last, ![w].skip = skip,
                                     ![w].decoded = r.val]
  /\ UNCHANGED <<pc, trainVars, files, ld, tokenizer, client, seg, am, pool>>

NextWorkers ==
  \E w \in Workers :
    \/ WorkerEncode(w)
    \/ WorkerTextToIds(w)
    \/ WorkerApplyMergesPass(w)
    \/ WorkerEncodeReturn(w)
    \/ WorkerDecode(w)

SpecWorkers == InitWorkers /\ [][NextWorkers]_vars

\* ---------------------------------------- count_pairs_parallel on its own
\* The corpus of n sequences that repeats pattern.
Cycle(pattern, n) == [k \in 1..n |-> pattern[((k - 1) % Len(pattern)) + 1]]

\* The id sequences of the chunks "ab", "aaa" and "b"
CountChunkSet == {<<101, 102>>, <<101, 101, 101>>, <<102>>}

CountSizes == (0..MaxExtra) \cup (ParallelThreshold..(ParallelThreshold + MaxExtra))

CountCorpora == {Cycle(<<a, b>>, n) : a \in CountChunkSet, b \in CountChunkSet, n \in CountSizes}

\* Some small worker counts, the one train passes, and one more than the
\* corpus has sequences
CountWorkers(corpus) == (1..MaxPool) \cup {NumWorkers, Len(corpus) + 1}

InitCount ==
  /\ pc = "counting"
  /\ corpus_chunks \in CountCorpora
  /\ pool \in {[NoPool EXCEPT !.stage = "called", !.num_workers = n] : n \in 1..(ParallelThreshold + MaxExtra + 1)}
  /\ pool.num_workers \in CountWorkers(corpus_chunks)
  /\ text = <<>>
  /\ vocab_size = 0
  /\ string_chunks = <<>>
  /\ vocab = EmptyDict
  /\ num_merges = 0
  /\ merges = <<>>
  /\ i = 0
  /\ files = NoFiles
  /\ ld = NoLoad
  /\ tokenizer = NoTokenizer
  /\ client = NoClient
  /\ seg = NoSeg
  /\ am = NoAm
  /\ workers = NoWorkers

\* len(corpus_chunks) < 1000: return count_pairs(corpus_chunks)
PoolSequential ==
  /\ pc = "counting"
  /\ pool.stage = "called"
  /\ Len(corpus_chunks) < ParallelThreshold
  /\ pool' = [pool EXCEPT !.stage = "returned", !.final_counts = count_pairs(corpus_chunks)]
  /\ UNCHANGED <<pc, trainVars, files, ld, tokenizer, client, seg, am, workers>>

\* chunk_size and splits; range(0, len, chunk_size) raises ValueError when
\* chunk_size is 0.
PoolSplit ==
  /\ pc = "counting"
  /\ pool.stage = "called"
  /\ Len(corpus_chunks) >= ParallelThreshold
  /\ LET chunk_size == Len(corpus_chunks) \div pool.num_workers
     IN pool' = IF chunk_size = 0 THEN [pool EXCEPT !.stage = "raised"]
                ELSE LET splits == Splits(corpus_chunks, chunk_size)
                     IN [pool EXCEPT !.stage = "mapping", !.splits = splits,
                                     !.results = [k \in 1..Len(splits) |-> <<>>]]
  /\ UNCHANGED <<pc, trainVars, files, ld, tokenizer, client, seg, am, workers>>

\* pool.map(count_pairs, splits): one split is counted by a worker; the
\* workers finish in any order, the results are kept in the order of splits.
PoolMap(k) ==
  /\ pc = "counting"
  /\ pool.stage = "mapping"
  /\ pool.results[k] = <<>>
  /\ pool' = [pool EXCEPT !.results[k] = <<count_pairs(pool.splits[k])>>]
  /\ UNCHANGED <<pc, trainVars, files, ld, tokenizer, client, seg, am, workers>>

\* All results are in: final_counts = Counter()
PoolMapEnd ==
  /\ pc = "counting"
  /\ pool.stage = "mapping"
  /\ \A k \in 1..Len(pool.results) : pool.results[k] # <<>>
  /\ pool' = [pool EXCEPT !.stage = "reducing", !.next = 1, !.final_counts = EmptyDict]
  /\ UNCHANGED <<pc, trainVars, files, ld, tokenizer, client, seg, am, workers>>

\* final_counts.update(result) for the next result
PoolUpdate ==
  /\ pc = "counting"
  /\ pool.stage = "reducing"
  /\ pool.next <= Len(pool.results)
  /\ pool' = [pool EXCEPT !.final_counts = CounterUpdate(@, DictItems(pool.results[pool.next][1])),
                          !.next = @ + 1]
  /\ UNCHANGED <<pc, trainVars, files, ld, tokenizer, client, seg, am, workers>>

\* return final_counts
PoolReturn ==
  /\ pc = "counting"
  /\ pool.stage = "reducing"
  /\ pool.next > Len(pool.results)
  /\ pool' = [pool EXCEPT !.stage = "returned"]
  /\ UNCHANGED <<pc, trainVars, files, ld, tokenizer, client, seg, am, workers>>

NextCount ==
  \/ PoolSequential
  \/ PoolSplit
  \/ \E k \in 1..Len(pool.results) : PoolMap(k)
  \/ PoolMapEnd
  \/ PoolUpdate
  \/ PoolReturn

SpecCount == InitCount /\ [][NextCount]_vars

\* ================================================================= claims
SpecialIds == {0, 1, 2, 3}

\* C1: round trip. Whenever the caller has decoded, with the default
\* skip_special_tokens=True, the ids that encode returned for a text with the
\* default add_special_tokens=False, neither call raised and the decoded
\* string is the text, for every tokenizer that train saved.
RoundTrip ==
  /\ client.stage = "encoded" => client.exc = "none"
  /\ (client.stage = "roundtrip" /\ ~client.add /\ client.skip)
       => (client.exc = "none" /\ client.decoded = client.text)

\* A multi-byte text, encoded with a merged id, came back unchanged.
RoundTripWitness ==
  /\ client.stage = "roundtrip" /\ ~client.add /\ client.skip
  /\ \E n \in 1..Len(client.text) : client.text[n] = 233
  /\ \E n \in 1..Len(client.ids) : client.ids[n] >= BaseVocabSize
  /\ client.decoded = client.text

\* C2: every pass of _apply_merges replaces, among the adjacent pairs that
\* have a rule, the leftmost occurrence of the pair of lowest rank by that
\* rule's new_id, and the loop stops exactly when no adjacent pair has a
\* rule; with the one rule (A,A)->X, [A,A,A] ends as [X,A].
RuleOf(pair) == CHOOSE k \in 1..Len(tokenizer.merges) : tokenizer.merges[k][1] = pair

PresentRules(ids) ==
  {p \in 1..(Len(ids) - 1) :
     \E k \in 1..Len(tokenizer.merges) : tokenizer.merges[k][1] = <<ids[p], ids[p + 1]>>}

LowestRankLeftmost ==
  [][(pc = "apply_merges" /\ ~am.done) =>
       /\ IF PresentRules(am.ids) = {} THEN am'.done /\ am'.ids = am.ids
          ELSE \E p \in PresentRules(am.ids) :
                 LET pair == <<am.ids[p], am.ids[p + 1]>>
                 IN /\ \A q \in PresentRules(am.ids) :
                         /\ RuleOf(<<am.ids[q], am.ids[q + 1]>>) >= RuleOf(pair)
                         /\ <<am.ids[q], am.ids[q + 1]>> = pair => q >= p
                    /\ ~am'.done
                    /\ am'.ids = SubSeq(am.ids, 1, p - 1)
                                   \o <<tokenizer.merges[RuleOf(pair)][2]>>
                                   \o SubSeq(am.ids, p + 2, Len(am.ids))
       /\ (am'.done /\ am.input = <<101, 101, 101>>
             /\ tokenizer.merges = <<<<<<101, 101>>, 260>>>>)
            => am'.ids = <<260, 101>>]_vars

\* [A,A,A] under the one rule (A,A)->X has been rewritten to [X,A].
OverlapWitness ==
  /\ pc = "merged"
  /\ am.input = <<101, 101, 101>>
  /\ tokenizer.merges = <<<<<<101, 101>>, 260>>>>
  /\ am.ids = <<260, 101>>
  /\ am.steps = 1

\* C3 as stated: with the single rule (104,101)->260, "hello" has base ids
\* [104,101,108,108,111], encodes to [260,108,108,111], and
\* [260,108,108,111] decodes to "hello".
HelloScenarioAsStated ==
  LET single == tokenizer.merges = <<<<<<104, 101>>, 260>>>>
  IN /\ (single /\ client.stage = "encoded" /\ client.text = Hello /\ ~client.add)
          => /\ TextToIds(tokenizer, Hello).val = <<104, 101, 108, 108, 111>>
             /\ client.ids = <<260, 108, 108, 111>>
     /\ (single /\ client.stage = "decoded" /\ client.ids = <<260, 108, 108, 111>>)
          => client.decoded = Hello

\* C3 amended: a byte b has id b + 4, so the rule for "h","e" is
\* (108,105)->260; with the 260 base symbols and that single rule, "hello"
\* has base ids [108,105,112,112,115], encodes to [260,112,112,115], and
\* [260,112,112,115] decodes to "hello".
HelloScenario ==
  LET single == /\ tokenizer.merges = <<<<<<108, 105>>, 260>>>>
                /\ DictLen(tokenizer.vocab) = BaseVocabSize + 1
  IN /\ (single /\ client.stage \in {"encoded", "roundtrip"} /\ client.text = Hello
           /\ ~client.add)
          => /\ TextToIds(tokenizer, Hello).val = <<108, 105, 112, 112, 115>>
             /\ client.ids = <<260, 112, 112, 115>>
     /\ (single /\ client.stage \in {"decoded", "roundtrip"}
           /\ client.ids = <<260, 112, 112, 115>>)
          => client.decoded = Hello

\* "hello" went through the tokenizer trained on "hello" with one merge.
HelloScenarioWitness ==
  /\ tokenizer.merges = <<<<<<108, 105>>, 260>>>>
  /\ DictLen(tokenizer.vocab) = BaseVocabSize + 1
  /\ client.stage = "roundtrip"
  /\ client.text = Hello
  /\ client.ids = <<260, 112, 112, 115>>
  /\ client.decoded = Hello

\* C4: decode never raises, whatever the ids and skip_special_tokens; its
\* result is the lenient UTF-8 reading of the bytes of the kept ids, where
\* an id that no vocabulary entry carries stands for the bytes of <UNK>.
SymbolOf(id) ==
  IF \E k \in DOMAIN tokenizer.vocab.map : tokenizer.vocab.map[k] = id
    THEN CHOOSE k \in DOMAIN tokenizer.vocab.map : tokenizer.vocab.map[k] = id
    ELSE UNK

DecodeTotal ==
  client.stage \in {"decoded", "roundtrip"} =>
    LET kept == IF client.skip THEN SelectSeq(client.ids, LAMBDA id : id \notin SpecialIds)
                ELSE client.ids
    IN /\ client.exc = "none"
       /\ client.decoded = Utf8Decode(Flatten([n \in 1..Len(kept) |-> SymbolOf(kept[n])]))

\* An absent id and a lone lead byte were decoded to <UNK> and U+FFFD.
DecodeTotalWitness ==
  /\ client.stage = "decoded"
  /\ ~client.skip
  /\ client.ids = <<999, 199>>
  /\ client.exc = "none"
  /\ client.decoded = UNK \o <<ReplacementChar>>

\* C5 as stated: a record of merges.txt that is not three integers is
\* skipped and loading goes on; the well-formed records are loaded in order.
RECURSIVE WellFormedRecords(_)
WellFormedRecords(lines) ==
  IF lines = <<>> THEN <<>>
  ELSE LET parts == SplitFields(Head(lines), 1)
       IN (IF Len(parts) = 3 /\ \A n \in 1..3 : IsIntLiteral(parts[n])
             THEN <<<<<<ParseInt(parts[1]), ParseInt(parts[2])>>, ParseInt(parts[3])>>>>
             ELSE <<>>)
          \o WellFormedRecords(Tail(lines))

MalformedRecordsSkipped ==
  /\ pc # "load_failed"
  /\ pc \in {"loading", "loaded"}
       => ld.merges = WellFormedRecords(SubSeq(files.merges, 1, ld.line - 1))
  /\ pc = "loaded" => tokenizer.merges = WellFormedRecords(files.merges)

\* C6: a run whose requested vocab_size is at most 260 never enters the
\* merge loop or the save step; it ends aborted with no file written, the
\* base vocabulary and no merge.
SmallVocabAborts ==
  /\ pc \in {"loop", "save", "saved", "crashed"} => vocab_size > BaseVocabSize
  /\ pc = "aborted" =>
       /\ vocab_size <= BaseVocabSize
       /\ files = NoFiles
       /\ merges = <<>>
       /\ i = 0
       /\ vocab = build_base_vocab

\* A run on a corpus that has pairs, asked for exactly 260, was aborted.
SmallVocabWitness ==
  /\ pc = "aborted"
  /\ vocab_size = BaseVocabSize
  /\ \E c \in 1..Len(corpus_chunks) : Len(corpus_chunks[c]) >= 2
  /\ ~files.exists

\* C7: all through training the vocabulary has 260 + len(merges) entries
\* and len(merges) is the number of passes performed, at most the number
\* requested; a run that saves with fewer merges than requested has no
\* adjacent pair left; the saved config carries the sizes achieved.
SavedSizes ==
  /\ pc \in {"loop", "save", "saved"} =>
       /\ DictLen(vocab) = BaseVocabSize + Len(merges)
       /\ Len(merges) = Min({num_merges, i})
  /\ pc \in {"save", "saved"} =>
       (Len(merges) < num_merges => \A c \in 1..Len(corpus_chunks) : Len(corpus_chunks[c]) < 2)
  /\ pc = "saved" =>
       /\ files.exists
       /\ files.config.vocab_size = BaseVocabSize + Len(merges)
       /\ files.config.vocab_size = DictLen(vocab)
       /\ files.config.vocab_size = Len(files.vocab)
       /\ files.config.num_merges = Len(merges)
       /\ Len(files.merges) = Len(merges)

\* A run stopped early, after one merge of the two requested, and saved.
SavedSizesWitness ==
  /\ pc = "saved"
  /\ num_merges = 2
  /\ Len(merges) = 1
  /\ files.config.vocab_size = BaseVocabSize + 1

\* C8: encode with add_special_tokens=True returns the ids of
\* add_special_tokens=False with one BOS before and one EOS after.
AddSpecialTokens ==
  (client.stage \in {"encoded", "roundtrip"} /\ client.add) =>
    client.ids = <<2>> \o Encode(tokenizer, client.text, FALSE).val \o <<3>>

\* A non-empty text was encoded with BOS and EOS around its ids.
AddSpecialTokensWitness ==
  /\ client.stage = "encoded"
  /\ client.add
  /\ client.text # <<>>
  /\ Len(client.ids) >= 3
  /\ client.ids[1] = 2
  /\ client.ids[Len(client.ids)] = 3

\* C9: decode with skip_special_tokens=True is decode with
\* skip_special_tokens=False of the ids without the special ids 0..3, every
\* other id kept in place; so a text encoded with BOS and EOS decodes to
\* itself.
SkipExactlySpecial ==
  /\ (client.stage \in {"decoded", "roundtrip"} /\ client.skip) =>
       client.decoded =
         Decode(tokenizer, SelectSeq(client.ids, LAMBDA id : id \notin SpecialIds), FALSE).val
  /\ (client.stage = "roundtrip" /\ client.add /\ client.skip) =>
       client.decoded = client.text

\* BOS was dropped and an unknown id kept.
SkipExactlySpecialWitness ==
  /\ client.stage = "decoded"
  /\ client.skip
  /\ client.ids = <<2, 999>>
  /\ client.decoded = UNK

\* C10: the chunks found so far are non-empty and concatenate to the text
\* scanned so far; when findall returns they concatenate to the whole text.
SegmentationLossless ==
  /\ \A n \in 1..Len(seg.chunks) : seg.chunks[n] # <<>>
  /\ Flatten(seg.chunks) = SubSeq(seg.text, 1, seg.pos - 1)
  /\ pc = "segmented" =>
       /\ Flatten(seg.chunks) = seg.text
       /\ seg.chunks = pretokenize(seg.text)

\* A text of a letter, a digit, a line break and another character was cut
\* into several chunks.
SegmentationWitness ==
  /\ pc = "segmented"
  /\ \E n \in 1..Len(seg.text) : IsLetter(seg.text[n])
  /\ \E n \in 1..Len(seg.text) : IsNumber(seg.text[n])
  /\ \E n \in 1..Len(seg.text) : IsNewline(seg.text[n])
  /\ \E n \in 1..Len(seg.text) : IsOther(seg.text[n])
  /\ Len(seg.chunks) >= 3
  /\ Flatten(seg.chunks) = seg.text

\* C11: encode and decode are read-only. In every step of any interleaving
\* of the callers the tokenizer (vocab, id_to_token, merges, merge_map,
\* special_tokens) is unchanged, the lists already returned to a caller
\* and the list handed to _apply_merges are not mutated, and all the encode
\* calls made on the same text with the same flag returned identical ids.
ReadOnlyCodec ==
  [][pc = "serving" =>
       /\ tokenizer' = tokenizer
       /\ \A w \in Workers :
            /\ Len(workers'[w].results) >= Len(workers[w].results)
            /\ SubSeq(workers'[w].results, 1, Len(workers[w].results)) = workers[w].results
            /\ (workers[w].stage = "merge" /\ workers'[w].stage = "merge")
                 => workers'[w].chunk_ids = workers[w].chunk_ids
       /\ \A w \in Workers, v \in Workers :
            (workers'[w].text = workers'[v].text /\ workers'[w].add = workers'[v].add)
              => \A n \in 1..Len(workers'[w].results), m \in 1..Len(workers'[v].results) :
                   workers'[w].results[n] = workers'[v].results[m]]_vars

\* Both callers encoded "aab" twice with BOS and EOS, got a merged id, and
\* one of them decoded its list with the special tokens skipped.
ReadOnlyCodecWitness ==
  /\ pc = "serving"
  /\ \A w \in Workers :
       /\ workers[w].text = <<97, 97, 98>>
       /\ workers[w].add
       /\ Len(workers[w].results) = MaxCalls
       /\ workers[w].results[1] = <<2, 261, 3>>
  /\ \E w \in Workers : workers[w].dec > 0 /\ workers[w].skip /\ workers[w].decoded = <<97, 97, 98>>

\* C12: the merge table during and after training. A pass of the loop only
\* appends to merges (a recorded merge is never modified or removed); the
\* k-th recorded merge, counting from 0, has new_id 260 + k; no pair is
\* recorded twice; and a pair that has been merged occurs adjacent in no
\* corpus sequence any more. The table a tokenizer loads has the same shape.
InTraining == pc \in {"loop", "save", "saved"}

MergeTableShape(ms) ==
  /\ \A k \in 1..Len(ms) : ms[k][2] = BaseVocabSize + (k - 1)
  /\ \A k \in 1..Len(ms), l \in 1..Len(ms) : k # l => ms[k][1] # ms[l][1]

MergeTableInvariant ==
  [][/\ (InTraining /\ InTraining') =>
          /\ Len(merges') >= Len(merges)
          /\ SubSeq(merges', 1, Len(merges)) = merges
     /\ InTraining' =>
          /\ MergeTableShape(merges')
          /\ \A k \in 1..Len(merges'), c \in 1..Len(corpus_chunks') :
               \A p \in 1..(Len(corpus_chunks'[c]) - 1) :
                 <<corpus_chunks'[c][p], corpus_chunks'[c][p + 1]>> # merges'[k][1]
     /\ pc' = "loaded" => MergeTableShape(tokenizer'.merges)]_vars

\* Two merges were recorded, the first for a pair that occurred twice in one
\* sequence, the second for the pair of the two new symbols.
MergeTableWitness ==
  /\ pc = "saved"
  /\ merges = << <<<<199, 173>>, 260>>, <<<<260, 260>>, 261>> >>
  /\ corpus_chunks = <<<<261>>>>

\* C13: the vocabulary layout in every state of training. Ids 0..3 are the
\* four special tokens; ids 4..259 are the 256 one-byte symbols, byte b at
\* id b + 4, and the byte-to-id map is total on 0..255 and injective; every
\* id from 260 on is the new_id of a recorded merge and its string is the
\* concatenation of the strings of that merge's two ids; the ids in use are
\* exactly 0..len(vocab)-1, one symbol each; and a pass of the loop keeps
\* every symbol at the id it had.
VocabBuilt == pc \in {"aborted", "loop", "save", "saved"}

StringOf(v, id) == CHOOSE k \in DOMAIN v.map : v.map[k] = id

VocabLayout(v, ms) ==
  LET byte_to_id == ByteToId(v)
      ids == DictValues(v)
  IN /\ \A n \in 1..4 :
          DictHas(v, SPECIAL_TOKENS.keys[n]) /\ DictGet(v, SPECIAL_TOKENS.keys[n]) = n - 1
     /\ \A b \in 0..255 : DictHas(v, <<b>>) /\ DictGet(v, <<b>>) = b + 4
     /\ DOMAIN byte_to_id = 0..255
     /\ Cardinality({byte_to_id[b] : b \in DOMAIN byte_to_id}) = 256
     /\ ids = 0..(DictLen(v) - 1)
     /\ Cardinality(DOMAIN v.map) = DictLen(v)
     /\ \A k \in DOMAIN v.map :
          v.map[k] >= BaseVocabSize =>
            \E m \in 1..Len(ms) :
              /\ ms[m][2] = v.map[k]
              /\ ms[m][1][1] \in ids /\ ms[m][1][2] \in ids
              /\ k = StringOf(v, ms[m][1][1]) \o StringOf(v, ms[m][1][2])

VocabLayoutInvariant ==
  [][/\ VocabBuilt' => VocabLayout(vocab', merges')
     /\ (VocabBuilt /\ VocabBuilt') =>
          \A k \in DOMAIN vocab.map : DictHas(vocab', k) /\ DictGet(vocab', k) = DictGet(vocab, k)]_vars

\* "aab" was trained with two merges: "aa" is id 260 and "aab", made of the
\* compound 260 and the byte symbol 102, is id 261.
VocabLayoutWitness ==
  /\ pc = "saved"
  /\ DictLen(vocab) = BaseVocabSize + 2
  /\ DictHas(vocab, <<97, 97>>) /\ DictGet(vocab, <<97, 97>>) = 260
  /\ DictHas(vocab, <<97, 97, 98>>) /\ DictGet(vocab, <<97, 97, 98>>) = 261
  /\ merges[2] = <<<<260, 102>>, 261>>

\* C14: the rewrite of a training pass. The corpus keeps its number of
\* sequences; every new sequence, with each new_id put back as the two ids
\* of the pair, is the old sequence (each replaced occurrence consumed two
\* elements, no element twice, the others in order); no adjacent occurrence
\* of the pair is left; for a pair (A,A) no A stands right before a new_id,
\* so the occurrences taken are the leftmost ones: A A A becomes [new, A].
RECURSIVE Unmerge(_, _, _)
Unmerge(ids, pair, new_id) ==
  IF ids = <<>> THEN <<>>
  ELSE (IF Head(ids) = new_id THEN pair ELSE <<Head(ids)>>) \o Unmerge(Tail(ids), pair, new_id)

Adjacent(ids, a, b) == \E p \in 1..(Len(ids) - 1) : ids[p] = a /\ ids[p + 1] = b

TrainingRewrite ==
  [][(pc = "loop" /\ Len(merges') = Len(merges) + 1) =>
       LET pair == merges'[Len(merges')][1]
           new_id == merges'[Len(merges')][2]
       IN /\ Len(corpus_chunks') = Len(corpus_chunks)
          /\ \A c \in 1..Len(corpus_chunks) :
               /\ Unmerge(corpus_chunks'[c], pair, new_id) = corpus_chunks[c]
               /\ \A p \in 1..Len(corpus_chunks[c]) : corpus_chunks[c][p] # new_id
               /\ ~Adjacent(corpus_chunks'[c], pair[1], pair[2])
               /\ pair[1] = pair[2] => ~Adjacent(corpus_chunks'[c], pair[1], new_id)
               /\ (corpus_chunks[c] = <<101, 101, 101>> /\ pair = <<101, 101>>)
                    => corpus_chunks'[c] = <<new_id, 101>>]_vars

\* The run [A,A,A] of the corpus "aaa" was rewritten with the pair (A,A).
TrainingRewriteWitness ==
  /\ pc = "loop"
  /\ string_chunks = <<<<97, 97, 97>>>>
  /\ merges = << <<<<101, 101>>, 260>> >>
  /\ corpus_chunks = <<<<260, 101>>>>

\* C15: the pair a training pass merges has the maximum total count. The
\* counter the pass computes holds exactly the pairs that occur, each with
\* the number of adjacent positions holding it, summed over all corpus
\* sequences (a repeated chunk counts once per occurrence, overlapping
\* occurrences count at every position), and no pair has a larger count
\* than the pair merged.
RECURSIVE SumOver(_, _)
SumOver(f, n) == IF n = 0 THEN 0 ELSE f[n] + SumOver(f, n - 1)

Occurrences(ids, pair) ==
  Cardinality({p \in 1..(Len(ids) - 1) : <<ids[p], ids[p + 1]>> = pair})

PairCount(corpus, pair) ==
  SumOver([c \in 1..Len(corpus) |-> Occurrences(corpus[c], pair)], Len(corpus))

PairsOf(corpus) ==
  UNION {{<<corpus[c][p], corpus[c][p + 1]>> : p \in 1..(Len(corpus[c]) - 1)} :
           c \in 1..Len(corpus)}

MostFrequentPair ==
  [][(pc = "loop" /\ Len(merges') = Len(merges) + 1) =>
       LET pair == merges'[Len(merges')][1]
           pair_counts == count_pairs_parallel(corpus_chunks, NumWorkers)
       IN /\ DOMAIN pair_counts.map = PairsOf(corpus_chunks)
          /\ \A q \in PairsOf(corpus_chunks) :
               /\ DictGet(pair_counts, q) = PairCount(corpus_chunks, q)
               /\ PairCount(corpus_chunks, q) <= PairCount(corpus_chunks, pair)
          /\ pair \in PairsOf(corpus_chunks)]_vars

\* In "bb ab ab" the pair merged first, (space,a), has count 2 because the
\* chunk " ab" occurs twice; the first pair met, (b,b), has count 1.
MostFrequentPairWitness ==
  /\ pc = "loop"
  /\ text = Repeated
  /\ Len(merges) = 1
  /\ merges[1] = <<<<36, 101>>, 260>>
  /\ corpus_chunks = <<<<102, 102>>, <<260, 102>>, <<260, 102>>>>

\* C16 as stated: when several pairs share the maximum count, the pair a
\* pass merges is the lexicographically smallest (left_id, right_id) among
\* them.
LexLeq(p, q) == p[1] < q[1] \/ (p[1] = q[1] /\ p[2] <= q[2])

TopPairs(corpus) ==
  {q \in PairsOf(corpus) : \A r \in PairsOf(corpus) : PairCount(corpus, r) <= PairCount(corpus, q)}

TieBreakLexicographic ==
  [][(pc = "loop" /\ Len(merges') = Len(merges) + 1) =>
       \A q \in TopPairs(corpus_chunks) : LexLeq(merges'[Len(merges')][1], q)]_vars

\* C16 amended: when several pairs share the maximum count, the pair a pass
\* merges is the one met first when the corpus sequences are scanned in
\* order, each from left to right; the merge list is a function of the
\* corpus, but of the order of its pairs, not of their ids.
FirstMet(corpus, pair) ==
  LET c == Min({d \in 1..Len(corpus) : Occurrences(corpus[d], pair) > 0})
  IN <<c, Min({p \in 1..(Len(corpus[c]) - 1) : <<corpus[c][p], corpus[c][p + 1]>> = pair})>>

TieBreakFirstMet ==
  [][(pc = "loop" /\ Len(merges') = Len(merges) + 1) =>
       LET pair == merges'[Len(merges')][1]
       IN /\ pair \in TopPairs(corpus_chunks)
          /\ \A q \in TopPairs(corpus_chunks) :
               LexLeq(FirstMet(corpus_chunks, pair), FirstMet(corpus_chunks, q))]_vars

\* In "baa" the pairs (b,a) and (a,a) both have count 1; (b,a), met first,
\* was merged although (a,a) is the smaller pair.
TieBreakWitness ==
  /\ pc = "loop"
  /\ text = <<98, 97, 97>>
  /\ merges = << <<<<102, 101>>, 260>> >>
  /\ corpus_chunks = <<<<260, 101>>>>

\* C17: merges never span a chunk boundary. In training the corpus has one
\* sequence per chunk, in chunk order, and the strings of a sequence's
\* symbols concatenate to the bytes of its own chunk. The ids encode returns
\* split into one group per chunk, in chunk order, the k-th group being
\* _apply_merges(_text_to_ids(chunk k)), so every byte offset where a chunk
\* ends is an offset where a token ends, also when the ids on the two sides
\* of the boundary form a pair that has a merge rule.
RECURSIVE Offsets(_, _)
Offsets(parts, n) ==
  IF n = 0 THEN {0} ELSE Offsets(parts, n - 1) \cup {Len(Flatten(SubSeq(parts, 1, n)))}

TokenStrings(ids) == [n \in 1..Len(ids) |-> StringOf(tokenizer.vocab, ids[n])]

ChunkBytes(chunks) == [n \in 1..Len(chunks) |-> Utf8Encode(chunks[n])]

RECURSIVE PerChunk(_)
PerChunk(chunks) ==
  IF chunks = <<>> THEN <<>>
  ELSE ApplyMerges(tokenizer, TextToIds(tokenizer, Head(chunks)).val) \o PerChunk(Tail(chunks))

ChunkBoundaries ==
  /\ InTraining =>
       /\ Len(corpus_chunks) = Len(string_chunks)
       /\ \A c \in 1..Len(corpus_chunks) :
            Flatten([n \in 1..Len(corpus_chunks[c]) |-> StringOf(vocab, corpus_chunks[c][n])])
              = Utf8Encode(string_chunks[c])
  /\ (pc = "loaded" /\ client.stage = "encoded" /\ ~client.add) =>
       LET chunks == pretokenize(client.text)
       IN /\ client.ids = PerChunk(chunks)
          /\ Flatten(TokenStrings(client.ids)) = Utf8Encode(client.text)
          /\ Offsets(ChunkBytes(chunks), Len(chunks))
               \subseteq Offsets(TokenStrings(client.ids), Len(client.ids))

\* "  a" was encoded with the rule (space,space)->260: its chunks " " and
\* " a" put the two spaces on the two sides of a boundary and they stay two
\* ids.
ChunkBoundariesWitness ==
  /\ pc = "loaded"
  /\ client.stage = "encoded"
  /\ ~client.add
  /\ client.text = <<32, 32, 97>>
  /\ Len(tokenizer.merges) >= 1
  /\ tokenizer.merges[1] = <<<<36, 36>>, 260>>
  /\ client.ids = <<36, 36, 101>>

\* C18 as stated: for every corpus and every num_workers >= 1,
\* count_pairs_parallel returns, and returns the pair-to-count mapping of
\* count_pairs; the splits, in order, cover every corpus sequence exactly
\* once, the remainder included, and the per-split counts are summed by
\* pair.
ParallelEqualsSequential ==
  pc = "counting" =>
    /\ pool.stage # "raised"
    /\ pool.stage \in {"mapping", "reducing", "returned"} /\ Len(corpus_chunks) >= ParallelThreshold
         => Flatten(pool.splits) = corpus_chunks
    /\ pool.stage = "reducing" =>
         \A q \in DOMAIN pool.final_counts.map :
           DictGet(pool.final_counts, q)
             = SumOver([k \in 1..(pool.next - 1) |->
                          IF DictHas(pool.results[k][1], q) THEN DictGet(pool.results[k][1], q)
                          ELSE 0], pool.next - 1)
    /\ pool.stage = "returned" =>
         /\ DOMAIN pool.final_counts.map = PairsOf(corpus_chunks)
         /\ pool.final_counts.map = count_pairs(corpus_chunks).map

\* C19: the trainer and the codec agree. At every point of the merge loop,
\* and so after the last merge, for every chunk of the training corpus the
\* codec built from the vocabulary and the merges learned so far rewrites
\* the chunk's base ids, one leftmost occurrence of the lowest-ranked present
\* pair per step, to exactly the sequence the trainer's corpus holds for
\* that chunk.
TrainerCodecAgreement ==
  InTraining =>
    LET tok == NewTokenizer(vocab, merges, SPECIAL_TOKENS)
    IN \A c \in 1..Len(string_chunks) :
         /\ TextToIds(tok, string_chunks[c]).exc = "none"
         /\ c <= Len(corpus_chunks)
         /\ ApplyMerges(tok, TextToIds(tok, string_chunks[c]).val) = corpus_chunks[c]

\* "bb ab ab" was trained with two merges: the trainer holds [b,b], [261],
\* [261], the chunk " ab" having gone through both rules.
TrainerCodecWitness ==
  /\ pc = "save"
  /\ text = Repeated
  /\ merges = << <<<<36, 101>>, 260>>, <<<<260, 102>>, 261>> >>
  /\ corpus_chunks = <<<<102, 102>>, <<261>>, <<261>>>>

\* C20: training preserves the bytes. After every pass of the merge loop,
\* for every corpus sequence, the strings of its symbols concatenate to the
\* UTF-8 bytes of the chunk it was built from; no sequence holds a
\* special-token id and no merge has one as left, right or new id; and every
\* pass that merges leaves the corpus with strictly fewer symbols in total.
SymbolBytes(v, ids) ==
  Flatten([n \in 1..Len(ids) |->
             IF ids[n] \in DictValues(v) THEN StringOf(v, ids[n]) ELSE <<-1>>])

TotalSymbols(corpus) == Len(Flatten(corpus))

BytePreservation ==
  [][/\ InTraining' =>
          /\ Len(corpus_chunks') = Len(string_chunks')
          /\ \A c \in 1..Len(corpus_chunks') :
               /\ SymbolBytes(vocab', corpus_chunks'[c]) = Utf8Encode(string_chunks'[c])
               /\ \A p \in 1..Len(corpus_chunks'[c]) : corpus_chunks'[c][p] \notin SpecialIds
          /\ \A k \in 1..Len(merges') :
               /\ merges'[k][1][1] \notin SpecialIds
               /\ merges'[k][1][2] \notin SpecialIds
               /\ merges'[k][2] \notin SpecialIds
     /\ (pc = "loop" /\ Len(merges') = Len(merges) + 1) =>
          TotalSymbols(corpus_chunks') < TotalSymbols(corpus_chunks)]_vars

\* The corpus "e-acute a": the two bytes of the first character were merged
\* into symbol 260 and the sequence still spells the three bytes.
BytePreservationWitness ==
  /\ pc = "loop"
  /\ text = <<233, 97>>
  /\ merges = << <<<<199, 173>>, 260>> >>
  /\ corpus_chunks = <<<<260, 101>>>>
  /\ SymbolBytes(vocab, corpus_chunks[1]) = <<195, 169, 97>>

====
